---- MODULE Spec2Model ----
(***************************************************************************)
(* The MD analyzer page (pages/3_MD_analyzer.py) as a state machine.       *)
(*                                                                         *)
(* The page is a script that the UI framework runs from top to bottom once *)
(* per user interaction.  One action of the model is one interaction       *)
(* followed by the complete script run it triggers.  The state is what     *)
(* survives between two runs (the widget values and st.session_state) and  *)
(* a log of what the last run did (which blocks built a System, which ran  *)
(* an analysis, what was rendered, where it raised).                       *)
(*                                                                         *)
(* An optional value is a sequence of length 0 or 1.                       *)
(***************************************************************************)
EXTENDS Integers, Sequences, FiniteSets, TLC

VARIABLES
    lib,            \* behaviour of the installed libraries (fixed per deployment)
    options,        \* xyz_options, topo_options, pbc_options (sorted lists)
    selection,      \* xyz_selection, topo_selection, pbc_selection
    check,          \* rdf_check, dens_check, msd_check, diel_check
    window,         \* widget state of the fit-window slider
    session_state,  \* st.session_state: "rdf_OO", "ldens", "MSD", "diel"
    pressed,        \* the button whose click triggered the last run ("" if none)
    built,          \* blocks that called create_u() in the last run
    runs,           \* number of analysis .run() calls per block in the last run
    button,         \* "Recalculate" buttons rendered by the last run
    shown,          \* the result whose chart / value the last run rendered
    index,          \* <<start_index, end_index>> of the last run's MSD step
    fit,            \* the self-diffusivity the last run wrote
    error           \* where the last run raised, if it did

vars == <<lib, options, selection, check, window, session_state, pressed,
          built, runs, button, shown, index, fit, error>>

-----------------------------------------------------------------------------
(* Bounds of the input families.                                           *)

MaxFrames == 4
MaxSlope == 2
MaxOffset == 1

-----------------------------------------------------------------------------
(* Program constants.                                                      *)

timestep == 100

dim_fac == 3

\* The session keys, in the order in which the script reaches their blocks.
Metrics == <<"rdf_OO", "ldens", "MSD", "diel">>

Keys == {Metrics[i] : i \in 1..Len(Metrics)}

Pos(m) == CASE m = "rdf_OO" -> 1 [] m = "ldens" -> 2 [] m = "MSD" -> 3 [] m = "diel" -> 4

Kinds == {"xyz", "topo", "pbc"}

-----------------------------------------------------------------------------
(* Input files.  A trajectory is described by what the analyses get out of *)
(* it: its number of frames, the MSD series it yields                      *)
(* (slope * lagtime + offset + bend * frame^2) and whether every frame can *)
(* be read (the reader loads frame 0 when the Universe is built and the    *)
(* others during .run()).  A box file holds one float, or does not.        *)

Traj(n, s, c, b, ok) ==
    [frames |-> n, slope |-> s, offset |-> c, bend |-> b, intact |-> ok]

Topology == [name |-> "topo.mol2"]

Box(name, ok) == [name |-> name, numeric |-> ok]

\* The working directories of the main specification.  Two trajectories
\* (three frames, one frame) with one box file; one trajectory with a box
\* file and a non-numeric one; a trajectory and a truncated one; and a
\* directory for each kind of file with no file of that kind.
Dir(xyz, pbc) == [xyz |-> xyz, topo |-> <<Topology>>, pbc |-> pbc]

FileSystems ==
    {Dir(<<Traj(3, 1, 0, 0, TRUE), Traj(1, 0, 0, 0, TRUE)>>, <<Box("a.pbc", TRUE)>>),
     Dir(<<Traj(1, 0, 0, 0, TRUE)>>, <<Box("a.pbc", TRUE), Box("b.pbc", FALSE)>>),
     Dir(<<Traj(3, 1, 0, 0, TRUE), Traj(3, 1, 0, 0, FALSE)>>, <<Box("a.pbc", TRUE)>>)}
    \cup
    {[Dir(<<Traj(3, 1, 0, 0, TRUE)>>, <<Box("a.pbc", TRUE)>>) EXCEPT ![k] = <<>>] :
        k \in Kinds}

\* Every trajectory of the bounded family, for the fit specification.
Trajectories ==
    {Traj(n, s, c, b, TRUE) : n \in 1..MaxFrames, s \in 0..MaxSlope,
                              c \in 0..MaxOffset, b \in 0..1}

\* st.sidebar.selectbox: the first option, or None when there is none.
selectbox_default(opts) == IF opts = <<>> THEN <<>> ELSE <<opts[1]>>

-----------------------------------------------------------------------------
(* The installed libraries.  Two behaviours differ between releases and    *)
(* are fixed for a deployment: whether linregress raises or returns NaN on *)
(* a single point, and whether the framework keeps or drops the state of   *)
(* the widgets a run that raised did not reach.                            *)

Libraries == [single_point : {"raise", "nan"}, keeps_widgets : BOOLEAN]

-----------------------------------------------------------------------------
(* Numbers.  A slope is a rational, kept as a reduced pair <<num, den>>.   *)

RECURSIVE Gcd(_, _)
Gcd(a, b) == IF b = 0 THEN a ELSE Gcd(b, a % b)

Abs(a) == IF a < 0 THEN -a ELSE a

Frac(a, b) ==
    LET g == Gcd(Abs(a), Abs(b))
        sgn == IF b < 0 THEN -1 ELSE 1
    IN <<sgn * (a \div g), sgn * (b \div g)>>

RECURSIVE Sum(_)
Sum(s) == IF s = <<>> THEN 0 ELSE Head(s) + Sum(Tail(s))

Dot(x, y) == Sum([i \in 1..Len(x) |-> x[i] * y[i]])

\* Python's seq[a:b] for 0 <= a: the items of 0-based index a .. b-1, the
\* end clamped to the length.
PySlice(s, a, b) ==
    LET hi == IF b < Len(s) THEN b ELSE Len(s)
    IN IF hi <= a THEN <<>> ELSE [i \in 1..(hi - a) |-> s[a + i]]

\* Python's seq[i] for 0 <= i: the item, or nothing (IndexError).
PyItem(s, i) == IF i \in 0..(Len(s) - 1) THEN <<s[i + 1]>> ELSE <<>>

-----------------------------------------------------------------------------
(* The MSD step: lag times, the slider, the frame indices, the regression. *)

\* MSD.results.timeseries of a run over trajectory x: one value per frame.
timeseries(x) ==
    [i \in 1..x.frames |->
        x.slope * (i - 1) * timestep + x.offset + x.bend * (i - 1) * (i - 1)]

\* lagtimes = np.arange(nframes) * timestep
lagtimes(nframes) == [i \in 1..nframes |-> (i - 1) * timestep]

\* The values of the slider between its bounds that are multiples of grain.
SliderTimes(lo, hi, grain) == {t \in lo..hi : t % grain = 0}

\* The widget is identified by its label and arguments (min_value, max_value,
\* value), so a stored window belongs to it only if the bounds agree.
\* Otherwise it returns its default, the full range (for a single frame,
\* the one window <<0, 0>>).
slider(win, lt) ==
    IF win # <<>> /\ win[1].lo = lt[1] /\ win[1].hi = lt[Len(lt)]
    THEN win[1]
    ELSE [lo |-> lt[1], hi |-> lt[Len(lt)],
          start_time |-> lt[1], end_time |-> lt[Len(lt)]]

\* start_index = int(start_time / timestep)
start_index(start_time) == start_time \div timestep

\* Mutant: the end index is made inclusive by adding one.
end_index_Inclusive(end_time) == end_time \div timestep + 1

\* end_index = int(end_time / timestep)
end_index(end_time) == end_time \div timestep

\* scipy.stats.linregress(x, y).slope: raises on empty input; on a single
\* point (all x identical) raises or yields NaN, by release; otherwise the
\* least-squares slope.
linregress(x, y, single_point) ==
    LET n == Len(x) IN
    IF n = 0 THEN [kind |-> "raise", slope |-> <<>>]
    ELSE IF n * Dot(x, x) - Sum(x) * Sum(x) = 0
         THEN [kind |-> single_point, slope |-> <<>>]
         ELSE [kind |-> "value",
               slope |-> Frac(n * Dot(x, y) - Sum(x) * Sum(y),
                              n * Dot(x, x) - Sum(x) * Sum(x))]

\* D = slope * 1 / (2 * MSD.dim_fac)
Diffusivity(slope) == Frac(slope[1], slope[2] * 2 * dim_fac)

-----------------------------------------------------------------------------
(* One run of the script.  The run carries a record st:                    *)
(*   ss      st.session_state            built, runs, button, shown,       *)
(*   win     the slider, once rendered   index, fit, error: the run's log  *)
(* and reads env: the widget values (sel, check, win), the button pressed  *)
(* (pressed, "" for none) and lib.  After an exception nothing more runs.  *)

Raise(st, m, where) == [st EXCEPT !.error = <<[block |-> m, at |-> where]>>]

\* Mutant: the box side falls back to a default when float() fails.
create_u_Lenient(sel) ==
    IF sel.topo # <<>> /\ sel.xyz # <<>> /\ sel.pbc # <<>>
    THEN <<[xyz |-> sel.xyz[1], topo |-> sel.topo[1], pbc |-> sel.pbc[1]]>>
    ELSE <<>>

\* create_u(): the System of the selected files, or an exception: Universe()
\* needs a topology and a trajectory, open() a path, float() a number.
create_u(sel) ==
    IF /\ sel.topo # <<>>
       /\ sel.xyz # <<>>
       /\ sel.pbc # <<>>
       /\ sel.pbc[1].numeric
    THEN <<[xyz |-> sel.xyz[1], topo |-> sel.topo[1], pbc |-> sel.pbc[1]]>>
    ELSE <<>>

\* <analysis>.run() over System u: the results, which the System
\* determines, or an exception when a frame cannot be read.
run(u) == IF u.xyz.intact THEN <<[of |-> u]>> ELSE <<>>

\* Mutant: the first-use test always succeeds, so the cache is never read.
NotInSession_Always(ss, m) == TRUE

\* "<key>" not in st.session_state
NotInSession(ss, m) == ss[m] = <<>>

\* Mutant: an existing entry is kept, as st.session_state.setdefault would.
Store_IfAbsent(ss, m, result) ==
    [ss EXCEPT ![m] = IF @ = <<>> THEN result ELSE @]

\* Mutant: a line left from the RDF block also assigns the result to "rdf_OO".
Store_AlsoFirstKey(ss, m, result) ==
    [ss EXCEPT ![m] = result, !["rdf_OO"] = result]

\* st.session_state["<key>"] = <analysis>.run()
Store(ss, m, result) == [ss EXCEPT ![m] = result]

\* Mutant: the button reads True in every run.
ButtonClicked_Always(m, clicked) == TRUE

\* st.sidebar.button("Recalculate ..."): True in the run its click triggers.
ButtonClicked(m, clicked) == clicked = m

\* One .run() call and the assignment of its result; an exception leaves
\* the session state as it was.
Assign(m, st, result) ==
    IF result = <<>>
    THEN Raise([st EXCEPT !.runs[m] = @ + 1], m, "run")
    ELSE [st EXCEPT !.runs[m] = @ + 1, !.ss = Store(st.ss, m, result)]

RunAndStore(m, u, st) == Assign(m, st, run(u))

\* if st.sidebar.button("Recalculate ..."):  ... = <analysis>.run()
RecalculateBlock(m, u, st, clicked) ==
    IF st.error # <<>> THEN st
    ELSE IF ButtonClicked(m, clicked)
         THEN RunAndStore(m, u, [st EXCEPT !.button[m] = TRUE])
         ELSE [st EXCEPT !.button[m] = TRUE]

\* if "<key>" not in st.session_state: ... = <analysis>.run()
\* followed by the "Recalculate" lines.
CacheBlock(m, u, st, clicked) ==
    RecalculateBlock(m, u,
                     IF NotInSession(st.ss, m) THEN RunAndStore(m, u, st) ELSE st,
                     clicked)

\* The regression over the window w of series msd, the diffusivity, and
\* last the chart.
Regress(st, msd, lt, w, si, ei, single_point) ==
    LET lm == linregress(PySlice(lt, si, ei), PySlice(msd, si, ei), single_point)
    IN IF \/ PyItem(msd, w.start_time \div timestep) = <<>>
          \/ PyItem(msd, w.end_time \div timestep) = <<>>
       THEN Raise(st, "MSD", "update_yaxes")
       ELSE IF lm.kind = "raise"
       THEN Raise(st, "MSD", "linregress")
       ELSE [st EXCEPT
                !.fit = <<[kind |-> lm.kind,
                           D |-> IF lm.kind = "value"
                                 THEN Diffusivity(lm.slope) ELSE <<>>]>>,
                !.shown["MSD"] = st.ss["MSD"]]

\* The slider over the lag times lt and the frame indices of its window.
Window(st, msd, lt, w, single_point) ==
    Regress([st EXCEPT !.win = <<w>>,
                       !.index = <<start_index(w.start_time), end_index(w.end_time)>>],
            msd, lt, w, start_index(w.start_time), end_index(w.end_time),
            single_point)

\* The rest of the MSD block, from "msd = MSD.results.timeseries".
MsdStep(st, env) ==
    Window(st,
           timeseries(st.ss["MSD"][1].of.xyz),
           lagtimes(st.ss["MSD"][1].of.xyz.frames),
           slider(env.win, lagtimes(st.ss["MSD"][1].of.xyz.frames)),
           env.lib.single_point)

\* What a block renders from its session entry.
Render(m, st, env) ==
    IF st.error # <<>> THEN st
    ELSE IF m = "MSD" THEN MsdStep(st, env)
    ELSE [st EXCEPT !.shown[m] = st.ss[m]]

\* u = create_u() and the rest of the block.
Built(m, st, env, u) ==
    IF u = <<>> THEN Raise(st, m, "create_u")
    ELSE Render(m, CacheBlock(m, u[1], st, env.pressed), env)

\* The block of metric m: "if <m>_check:" to its last statement.
Block(m, st, env) ==
    IF st.error # <<>> \/ ~env.check[m] THEN st
    ELSE Built(m, [st EXCEPT !.built[m] = TRUE], env, create_u(env.sel))

RECURSIVE Blocks(_, _, _)
Blocks(i, st, env) ==
    IF i > Len(Metrics) THEN st
    ELSE Blocks(i + 1, Block(Metrics[i], st, env), env)

\* The whole script, from the session state ss.
Script(ss, env) ==
    Blocks(1,
           [ss |-> ss,
            built |-> [m \in Keys |-> FALSE],
            runs |-> [m \in Keys |-> 0],
            button |-> [m \in Keys |-> FALSE],
            shown |-> [m \in Keys |-> <<>>],
            win |-> <<>>, index |-> <<>>, fit |-> <<>>, error |-> <<>>],
           env)

\* The checkbox of m is rendered unless an earlier block raised.
CheckboxRendered(m, err) ==
    IF err = <<>> THEN TRUE ELSE Pos(err[1].block) >= Pos(m)

\* The slider is rendered once the MSD block has passed its cache lines.
SliderRendered(st) == st.win # <<>>

\* The slider is on the page the last run left.
SliderOnPage == index # <<>>

\* A widget the run rendered holds the value it returned.  One the run did
\* not render loses its state when the run ends normally; when the run
\* raised, it keeps or loses it, by release of the framework.
CheckAfter(m, st, env) ==
    IF CheckboxRendered(m, st.error) THEN env.check[m]
    ELSE env.lib.keeps_widgets /\ env.check[m]

WindowAfter(st, env) ==
    IF SliderRendered(st) THEN st.win
    ELSE IF st.error # <<>> /\ env.lib.keeps_widgets THEN env.win
    ELSE <<>>

\* The script run an interaction triggers: from session state ss, on widget
\* values sel, chk, win, with button btn clicked ("" for none).
RerunFrom(ss, btn, sel, chk, win) ==
    LET env == [sel |-> sel, check |-> chk, win |-> win, lib |-> lib,
                pressed |-> btn]
    IN \E st \in {Script(ss, env)} :
       /\ pressed' = btn
       /\ selection' = sel
       /\ check' = [m \in Keys |-> CheckAfter(m, st, env)]
       /\ window' = WindowAfter(st, env)
       /\ session_state' = st.ss
       /\ built' = st.built
       /\ runs' = st.runs
       /\ button' = st.button
       /\ shown' = st.shown
       /\ index' = st.index
       /\ fit' = st.fit
       /\ error' = st.error
       /\ UNCHANGED <<lib, options>>

\* The session state is the one the last run left.
Rerun(btn, sel, chk, win) == RerunFrom(session_state, btn, sel, chk, win)

-----------------------------------------------------------------------------
(* The session.                                                            *)

\* A new session after its first run: every widget at its default, nothing
\* computed.
Fresh(fs) ==
    /\ lib \in Libraries
    /\ options = fs
    /\ selection = [k \in Kinds |-> selectbox_default(fs[k])]
    /\ check = [m \in Keys |-> FALSE]
    /\ window = <<>>
    /\ session_state = [m \in Keys |-> <<>>]
    /\ pressed = ""
    /\ built = [m \in Keys |-> FALSE]
    /\ runs = [m \in Keys |-> 0]
    /\ button = [m \in Keys |-> FALSE]
    /\ shown = [m \in Keys |-> <<>>]
    /\ index = <<>>
    /\ fit = <<>>
    /\ error = <<>>

Init == \E fs \in FileSystems : Fresh(fs)

\* Mutant: a change of selection clears the session entries.
SelectFile_Invalidating ==
    \E k \in Kinds : \E i \in 1..Len(options[k]) :
        /\ selection[k] # <<options[k][i]>>
        /\ RerunFrom([m \in Keys |-> <<>>], "",
                     [selection EXCEPT ![k] = <<options[k][i]>>], check, window)

\* The user picks another file in one of the three select boxes.
SelectFile ==
    \E k \in Kinds : \E i \in 1..Len(options[k]) :
        /\ selection[k] # <<options[k][i]>>
        /\ Rerun("", [selection EXCEPT ![k] = <<options[k][i]>>], check, window)

\* The user ticks or unticks the checkbox of a metric.
Toggle(m) ==
    /\ CheckboxRendered(m, error)
    /\ Rerun("", selection, [check EXCEPT ![m] = ~check[m]], window)

\* The user clicks the "Recalculate" button of a metric.
Recalculate(m) ==
    /\ button[m]
    /\ Rerun(m, selection, check, window)

\* The user moves the handles of the fit-window slider to multiples of grain.
SlideTo(grain) ==
    /\ SliderOnPage
    /\ \E a, b \in SliderTimes(window[1].lo, window[1].hi, grain) :
        /\ a <= b
        /\ <<a, b>> # <<window[1].start_time, window[1].end_time>>
        /\ Rerun("", selection, check,
                 <<[window[1] EXCEPT !.start_time = a, !.end_time = b]>>)

\* The window is moved to whole frames.
MoveSlider == SlideTo(timestep)

\* The window is moved to half frames.
MoveSliderFine == SlideTo(timestep \div 2)

\* The user asks for a re-run without touching a widget.
Refresh == Rerun("", selection, check, window)

ToggleAny == \E m \in Keys : Toggle(m)

RecalculateAny == \E m \in Keys : Recalculate(m)

Next == SelectFile \/ ToggleAny \/ RecalculateAny \/ MoveSlider \/ Refresh

Spec == Init /\ [][Next]_vars

-----------------------------------------------------------------------------
(* The fit specification: a session on a directory that holds one          *)
(* trajectory of the bounded family, in which the user works with the MSD  *)
(* block alone and moves the slider in half frames.                        *)

InitFit ==
    \E x \in Trajectories : Fresh(Dir(<<x>>, <<Box("a.pbc", TRUE)>>))

ToggleMSD == Toggle("MSD")

RecalculateMSD == Recalculate("MSD")

NextFit == ToggleMSD \/ RecalculateMSD \/ MoveSliderFine \/ Refresh

SpecFit == InitFit /\ [][NextFit]_vars


-----------------------------------------------------------------------------
(* Vocabulary of the properties.                                           *)

\* The last run raised inside the block of m.
RaisedIn(m) == error # <<>> /\ error[1].block = m

\* The last run executed the block of m to its last statement.
Completed(m) == built[m] /\ ~RaisedIn(m)

\* The System of the currently selected files.
SelectedSystem ==
    [xyz |-> selection.xyz[1], topo |-> selection.topo[1], pbc |-> selection.pbc[1]]

\* The MSD series of the session entry and its length.
CachedSeries == timeseries(session_state["MSD"][1].of.xyz)

\* The sub-series the regression of the last run was given has k items.
FitLength == index[2] - index[1]

-----------------------------------------------------------------------------
(* C1.  Once a metric has a result in the session cache, a re-run in which *)
(* its "Recalculate" button is not pressed calls no .run() for it, leaves  *)
(* the entry as it is, and whatever it renders for the metric is that      *)
(* entry; it renders it whenever the metric's block runs to its end.       *)
C1_CachedResultReused ==
    [][\A m \in Keys :
        (session_state[m] # <<>> /\ pressed' # m) =>
            /\ runs'[m] = 0
            /\ session_state'[m] = session_state[m]
            /\ shown'[m] \in {<<>>, session_state[m]}
            /\ Completed(m)' => shown'[m] = session_state[m]]_vars

\* A re-run has rendered a cached result without running the analysis.
C1_Witness ==
    \E m \in Keys : /\ shown[m] # <<>>
                    /\ shown[m] = session_state[m]
                    /\ runs[m] = 0
                    /\ pressed = ""

(* C2.  In a re-run triggered by the "Recalculate" button of m, the block  *)
(* of m builds a System from the files selected now and calls .run() once  *)
(* on it.  If the run returns, its result replaces the session entry and   *)
(* is what the re-run renders for m; if it raises, the entry is untouched. *)
C2_RecalculateOverwrites ==
    [][\A m \in Keys :
        pressed' = m =>
            /\ check'[m] /\ built'[m] /\ runs'[m] = 1
            /\ IF RaisedIn(m)' /\ error'[1].at = "run"
               THEN /\ ~selection'.xyz[1].intact
                    /\ session_state'[m] = session_state[m]
                    /\ shown'[m] = <<>>
               ELSE /\ session_state'[m] = <<[of |-> SelectedSystem']>>
                    /\ shown'[m] \in {<<>>, session_state'[m]}
                    /\ Completed(m)' => shown'[m] = session_state'[m]]_vars

\* "Recalculate" has replaced a result of other files by one of the selected
\* files and the re-run rendered it.
C2_Witness ==
    \E m \in Keys : /\ pressed = m
                    /\ runs[m] = 1
                    /\ shown[m] = <<[of |-> SelectedSystem]>>
                    /\ \E m2 \in Keys \ {m} :
                          /\ session_state[m2] # <<>>
                          /\ session_state[m2] # session_state[m]

(* C3.  The session entry of m changes only in a re-run in which m's       *)
(* toggle is on and m's own block runs its analysis, either because the    *)
(* entry was absent (first use) or because m's "Recalculate" was clicked.  *)
(* So a re-run leaves the entry alone when m's toggle is off, when m has   *)
(* an entry and the click was on no button or on another metric's, and in  *)
(* particular when another metric is toggled or computed or the slider is  *)
(* moved while m has an entry.                                             *)
C3_OnlyOwnPathWrites ==
    [][\A m \in Keys :
        /\ session_state'[m] # session_state[m] =>
              /\ check'[m] /\ built'[m] /\ runs'[m] = 1
              /\ session_state[m] = <<>> \/ pressed' = m
        /\ runs'[m] > 0 => (session_state[m] = <<>> \/ pressed' = m)
        /\ (session_state[m] # <<>> /\ pressed' # m) =>
              session_state'[m] = session_state[m]]_vars

\* Another metric was computed by a re-run that left an existing entry alone.
C3_Witness ==
    \E m, m2 \in Keys :
        /\ m # m2
        /\ runs[m2] = 1
        /\ runs[m] = 0
        /\ session_state[m] # <<>>
        /\ session_state[m] # session_state[m2]

(* C4.  A re-run in which the selection changes leaves every existing      *)
(* session entry as it is, and what it renders for a metric that has an    *)
(* entry is that entry, computed from the earlier selection.               *)
C4_SelectionKeepsCache ==
    [][\A m \in Keys :
        (selection' # selection /\ session_state[m] # <<>>) =>
            /\ session_state'[m] = session_state[m]
            /\ shown'[m] \in {<<>>, session_state[m]}
            /\ Completed(m)' => shown'[m] = session_state[m]]_vars

\* A rendered result and the current selection disagree.
C4_Witness ==
    \E m \in Keys : /\ shown[m] # <<>>
                    /\ selection.xyz # <<>>
                    /\ shown[m][1].of.xyz # selection.xyz[1]
                    /\ pressed = ""

(* C5.  As the specification states it: with one of the three selections   *)
(* absent, no block calls the System builder, none runs an analysis and    *)
(* nothing is stored.  The script has no such guard.                       *)
C5_AbsentSelectionBlocks ==
    (\E k \in Kinds : selection[k] = <<>>) =>
        \A m \in Keys : ~built[m] /\ runs[m] = 0 /\ session_state[m] = <<>>

(* C6.  As the specification states it: when the fit window gives the      *)
(* regression zero or one frame, the MSD step reports "window too narrow"  *)
(* and writes no diffusivity; it neither raises nor writes NaN.            *)
C6_NarrowWindowReported ==
    (index # <<>> /\ FitLength <= 1) =>
        /\ error = <<>>
        /\ fit # <<>>
        /\ fit[1].kind = "too narrow"

(* C7.  A session entry is absent or the result of a run that finished on  *)
(* a System built from three readable files.  A re-run that raises while   *)
(* building the System or running the analysis in the block of m leaves    *)
(* m's entry as it was and renders nothing for m.                          *)
C7_EntryComplete ==
    /\ [](\A m \in Keys :
            session_state[m] # <<>> =>
                /\ session_state[m][1].of.pbc.numeric
                /\ session_state[m][1].of.xyz.intact)
    /\ [][\A m \in Keys :
            (RaisedIn(m)' /\ error'[1].at \in {"create_u", "run"}) =>
                /\ session_state'[m] = session_state[m]
                /\ shown'[m] = <<>>]_vars

\* The System build raised (non-numeric box file) in the block of a metric
\* that keeps its earlier entry.
C7_Witness ==
    /\ error # <<>>
    /\ error[1].at = "create_u"
    /\ selection.pbc # <<>>
    /\ ~selection.pbc[1].numeric
    /\ session_state[error[1].block] # <<>>

(* C8.  As the specification states it: for a series that is linear in the *)
(* lag time with slope s and the slider at its default full range, the     *)
(* indices are 0 and n-1 and the diffusivity written is s/6.  Stated for   *)
(* n >= 2, where the full window is not the narrow window of C6.           *)
C8_LinearSeriesDiffusivity ==
    (/\ index # <<>>
     /\ Len(CachedSeries) >= 2
     /\ session_state["MSD"][1].of.xyz.bend = 0
     /\ window[1].start_time = 0
     /\ window[1].end_time = (Len(CachedSeries) - 1) * timestep) =>
        /\ index = <<0, Len(CachedSeries) - 1>>
        /\ fit # <<>>
        /\ fit[1].kind = "value"
        /\ fit[1].D[1] * 6 = session_state["MSD"][1].of.xyz.slope * fit[1].D[2]

(* C9.  Whenever the MSD step has run, the frame indices derived from the  *)
(* slider satisfy 0 <= start_index <= end_index <= n-1, n the length of    *)
(* the series, and the reads msd[start_time // timestep] and               *)
(* msd[end_time // timestep] do not raise.                                 *)
C9_IndicesInBounds ==
    index # <<>> =>
        /\ 0 <= index[1]
        /\ index[1] <= index[2]
        /\ index[2] <= Len(CachedSeries) - 1
        /\ ~(RaisedIn("MSD") /\ error[1].at = "update_yaxes")

\* The window starts inside a frame: 150 // 100 = 1.
C9_Witness ==
    /\ index = <<1, 3>>
    /\ window[1].start_time = 150
    /\ window[1].end_time = 300

(* C10.  No re-run calls the analysis of a metric more than once: the      *)
(* first-use run and the "Recalculate" run never both happen.              *)
C10_AtMostOneRun == \A m \in Keys : runs[m] <= 1

\* A click on "Recalculate" found the entry present and ran once.
C10_Witness ==
    \E m \in Keys : pressed = m /\ runs[m] = 1 /\ session_state[m] # <<>>

=============================================================================
